---- MODULE Spec2Model ----
(***************************************************************************)
(* A model of the Yelp rating-prediction scripts:                          *)
(*   - the two retry loops around the hosted LLaMA endpoint                *)
(*     (call_llama_batch_api, call_llama_api_batch),                       *)
(*   - JSON extraction from model output (extract_json) and predict_rating,*)
(*   - the accuracy / off-by-one metrics of the evaluation scripts.        *)
(* Each part has its own specification over the shared variables; the      *)
(* variables of the other parts stay at their idle values.                 *)
(***************************************************************************)
EXTENDS Integers, Sequences, FiniteSets, TLC

VARIABLES
    \* ---- retry loops ----
    caller,        \* "batch": call_llama_batch_api, "free": call_llama_api_batch, "none"
    max_retries,   \* the max_retries argument
    nprompts,      \* len(prompts)
    attempt,       \* the loop variable of `for attempt in range(max_retries)`
    pc,            \* "loop" | "returned" | "raised" | "idle"
    requests,      \* number of requests.post calls issued so far
    response,      \* status held by the local variable `response`, or "unbound"
    sleeps,        \* one record per failed iteration: what failed and seconds slept
    result,        \* the returned list
    successes,     \* number of successful (200, well-formed) requests seen
    \* ---- JSON extraction / predict_rating ----
    variant,       \* "app": app.py, "free": task1_evaluation_llama_free.py,
                   \* "batch": task1_evaluation_llama_batch.py, "none"
    jpc,           \* "call" | "extract" | "decide" | "done" | "raised" | "idle"
    text,          \* the response string, as a sequence of tokens
    batch_size,    \* the batch_size argument of extract_json_batch
    extracted,     \* what extract_json returned
    stages,        \* the extraction stages that ran, in order
    prediction,    \* what predict_rating returned
    \* ---- metrics ----
    mpc,           \* "collect" | "scored" | "idle"
    script,        \* "batch" | "free" | "none"
    rows,          \* the scored rows: prediction, actual rating, JSON validity
    metrics,       \* the computed metrics
    \* ---- evaluation loops ----
    epc,             \* "loop" | "done" | "raised" | "idle"
    escript,         \* "batch": evaluate_approach_batch, "free": evaluate_approach, "none"
    nreviews,        \* len(df)
    batch_idx,       \* the loop variable: the number of batches taken so far
    batches,         \* the index range [batch_start, batch_end) of each batch taken
    predictions,     \* the list predictions
    actual_ratings,  \* the list actual_ratings: each rating with the review it is of
    valid_responses, \* the counter valid_responses
    from_json,       \* number of predictions read from an entry of a parsed response
    http_requests,   \* number of requests.post calls issued by call_llama_batch_api
    report,          \* the returned results
    \* ---- the batch evaluation script ----
    main_pc,         \* "loop" | "done" | "raised" | "idle"
    main_df,         \* len(df) of the loaded dataset
    approach_idx,    \* number of approaches taken by `for approach in approaches`
    all_results,     \* the dict all_results, in insertion order
    summary_data,    \* the list summary_data
    \* ---- user dashboard ----
    user_pc,         \* "ready" | "returned" | "raised" | "idle"
    review_text,     \* the review_text argument, a sequence of characters
    user_out,        \* the tuple user_dashboard_predict returned
    llm_calls,       \* number of requests.post calls issued by call_llm_api
    \* ---- admin dashboard ----
    last_handler,    \* "none" | "process_batch" | "download_results" | "idle"
    batch_results_storage,  \* the global batch_results_storage
    csv,             \* the file given to process_batch
    predict_calls,   \* the rows process_batch called predict_rating on, in order
    batch_out,       \* the tuple process_batch returned
    download_out,    \* what download_results returned
    ever_completed,  \* some process_batch has finished its prediction loop
    completed        \* the results list of the last prediction loop that finished

retryVars == <<caller, max_retries, nprompts, attempt, pc, requests, response,
               sleeps, result, successes>>
jsonVars == <<variant, jpc, text, batch_size, extracted, stages, prediction>>
metricVars == <<mpc, script, rows, metrics>>
evalVars == <<epc, escript, nreviews, batch_idx, batches, predictions,
              actual_ratings, valid_responses, from_json, http_requests, report>>
mainVars == <<main_pc, main_df, approach_idx, all_results, summary_data>>
userVars == <<user_pc, review_text, user_out, llm_calls>>
adminVars == <<last_handler, batch_results_storage, csv, predict_calls,
               batch_out, download_out, ever_completed, completed>>
vars == <<retryVars, jsonVars, metricVars, evalVars, mainVars, userVars,
          adminVars>>

\* What each specification leaves alone.
allButRetry == <<jsonVars, metricVars, evalVars, mainVars, userVars,
    adminVars>>
allButJson == <<retryVars, metricVars, evalVars, mainVars, userVars,
    adminVars>>
allButMetrics == <<retryVars, jsonVars, evalVars, mainVars, userVars,
    adminVars>>
allButEval == <<retryVars, jsonVars, metricVars, mainVars, userVars,
    adminVars>>
allButMain == <<retryVars, jsonVars, metricVars, evalVars, userVars,
    adminVars>>
allButUser == <<retryVars, jsonVars, metricVars, evalVars, mainVars,
    adminVars>>
allButAdmin == <<retryVars, jsonVars, metricVars, evalVars, mainVars, userVars>>

(***************************************************************************)
(* Bounds of the model.                                                    *)
(***************************************************************************)
MaxRetriesBound == 5
MaxPrompts == 2
MaxLen == 4
MaxRows == 2
MaxReviews == 21
MaxChars == 11
MaxSmallCsv == 2
MaxOverLimit == 1

(***************************************************************************)
(* Program constants.                                                      *)
(***************************************************************************)
FreeDefaultRetries == 5
ModelLoadingWait == 20
RateLimitWaitUnit == 10
DefaultStars == 3
MinStars == 1
MaxStars == 5
BATCH_SIZE == 10
BatchDefaultRetries == 3
MinReviewChars == 10
RowLimit == 100

(***************************************************************************)
(* Idle values of each part.                                               *)
(***************************************************************************)
NoMetrics == [acc_num |-> 0, acc_den |-> 1, obo_num |-> 0, obo_den |-> 1,
              mae_num |-> 0, mae_den |-> 1, rate_num |-> 0, rate_den |-> 1,
              valid |-> 0, total |-> 0]

\* A JSON value as Python sees it: None, a number, a dict with its keys and
\* the value under 'predicted_stars' (0 when the key is absent), or a list
\* with its items.
JNone == [kind |-> "none", keys |-> {}, num |-> 0, items |-> <<>>]
JNumber(n) == [kind |-> "number", keys |-> {}, num |-> n, items |-> <<>>]
JObject(keys, stars) == [kind |-> "object", keys |-> keys, num |-> stars, items |-> <<>>]
JList(items) == [kind |-> "list", keys |-> {}, num |-> 0, items |-> items]

\* The items of a list: a number, or a dict.
ItemNumber(n) == [kind |-> "number", keys |-> {}, num |-> n]
ItemObject(keys, stars) == [kind |-> "object", keys |-> keys, num |-> stars]

JsonIdle ==
    /\ variant = "none" /\ jpc = "idle" /\ text = <<>> /\ batch_size = 0
    /\ extracted = JNone /\ stages = <<>> /\ prediction = JNone

RetryIdle ==
    /\ caller = "none" /\ max_retries = 0 /\ nprompts = 0 /\ attempt = 0
    /\ pc = "idle" /\ requests = 0 /\ response = "unbound" /\ sleeps = <<>>
    /\ result = <<>> /\ successes = 0

MetricsIdle ==
    /\ mpc = "idle" /\ script = "none" /\ rows = <<>> /\ metrics = NoMetrics

NoReport == [validity_num |-> 0, validity_den |-> 1, total_reviews |-> 0,
             valid_responses |-> 0, api_calls_made |-> 0]

EvalIdle ==
    /\ epc = "idle" /\ escript = "none" /\ nreviews = 0 /\ batch_idx = 0
    /\ batches = <<>> /\ predictions = <<>> /\ actual_ratings = <<>>
    /\ valid_responses = 0 /\ from_json = 0 /\ http_requests = 0
    /\ report = NoReport

MainIdle ==
    /\ main_pc = "idle" /\ main_df = 0 /\ approach_idx = 0
    /\ all_results = <<>> /\ summary_data = <<>>

NoOutput == [rating |-> "", explanation |-> "", confidence |-> "", time |-> "",
             stars |-> 0]

UserIdle ==
    /\ user_pc = "idle" /\ review_text = <<>> /\ user_out = NoOutput
    /\ llm_calls = 0

\* A file that pd.read_csv cannot read; also the value of csv before the
\* first upload.
Unreadable == [readable |-> FALSE, text |-> FALSE, stars |-> "absent", rows |-> 0]

NoBatchOut == [message |-> "", processed |-> 0, compared |-> "none",
               fig1 |-> "None", fig2 |-> "None", file |-> ""]

NoDownload == [file |-> "not called", rows |-> <<>>]

AdminIdle ==
    /\ last_handler = "idle" /\ batch_results_storage = <<>>
    /\ csv = Unreadable /\ predict_calls = <<>> /\ batch_out = NoBatchOut
    /\ download_out = NoDownload /\ ever_completed = FALSE /\ completed = <<>>

\* Every part but the named one is idle.
IdleBut(part) ==
    /\ IF part = "retry" THEN TRUE ELSE RetryIdle
    /\ IF part = "json" THEN TRUE ELSE JsonIdle
    /\ IF part = "metrics" THEN TRUE ELSE MetricsIdle
    /\ IF part = "eval" THEN TRUE ELSE EvalIdle
    /\ IF part = "main" THEN TRUE ELSE MainIdle
    /\ IF part = "user" THEN TRUE ELSE UserIdle
    /\ IF part = "admin" THEN TRUE ELSE AdminIdle

(***************************************************************************)
(* The retry loops.                                                        *)
(*                                                                         *)
(* An outcome is what one requests.post call produces:                     *)
(*   ok       status 200 and a body of the expected shape                  *)
(*   badjson  status 200 and a body that is not JSON                       *)
(*   badshape status 200 and JSON of an unexpected shape                   *)
(*   s503, s429, sother   an HTTP error status                             *)
(*   timeout, connerr     requests.post raised: no response object         *)
(***************************************************************************)
HttpErrors == {"s503", "s429", "sother"}
NoResponse == {"timeout", "connerr"}
Outcomes == {"ok", "badjson", "badshape"} \cup HttpErrors \cup NoResponse

StatusOf(o) ==
    CASE o = "s503" -> "503"
      [] o = "s429" -> "429"
      [] o = "sother" -> "other"
      [] OTHER -> "200"

\* What a failed iteration is logged as.
KindOf(o) ==
    CASE o = "s503" -> "503"
      [] o = "s429" -> "429"
      [] OTHER -> "err"

Generated == [kind |-> "generated", n |-> 0]
FailedAfter(n) == [kind |-> "failed_after", n |-> n]
Unexpected == [kind |-> "unexpected", n |-> 0]

\* [x] * n and [x for _ in prompts]
Repeat(x, n) == [i \in 1..n |-> x]

\* wait_time = 2 ** attempt
BackoffWait(k) == 2 ^ k

\* time.sleep(10 * (attempt + 1)) on a 429
RateLimitWait(k) == RateLimitWaitUnit * (k + 1)

\* The seconds slept by one failed iteration of call_llama_batch_api.
BatchSleep(o, k, retries) ==
    (CASE o = "s503" -> ModelLoadingWait
       [] o = "s429" -> RateLimitWait(k)
       [] OTHER -> 0)
    + (IF k < retries - 1 THEN BackoffWait(k) ELSE 0)

\* A backoff whose exponent is the 1-based attempt number.
FreeSleepOneBased(k) == BackoffWait(k + 1)

\* The seconds slept by one failed, handled iteration of call_llama_api_batch.
FreeSleep(k) == BackoffWait(k)

\* One iteration of the loop of call_llama_batch_api.
BatchAttempt(o) ==
    /\ caller = "batch" /\ pc = "loop" /\ attempt < max_retries
    /\ requests' = requests + 1
    /\ response' = IF o \in NoResponse THEN response ELSE StatusOf(o)
    /\ IF o = "ok"
       THEN /\ result' = Repeat(Generated, nprompts)
            /\ successes' = successes + 1
            /\ pc' = "returned"
            /\ UNCHANGED <<attempt, sleeps>>
       ELSE /\ sleeps' = Append(sleeps, [kind |-> KindOf(o),
                                          secs |-> BatchSleep(o, attempt, max_retries)])
            /\ attempt' = attempt + 1
            /\ UNCHANGED <<result, successes, pc>>
    /\ UNCHANGED <<caller, max_retries, nprompts>>

\* The loop of call_llama_batch_api ran out: return the error list.
BatchGiveUp ==
    /\ caller = "batch" /\ pc = "loop" /\ attempt >= max_retries
    /\ result' = Repeat(FailedAfter(max_retries), nprompts)
    /\ pc' = "returned"
    /\ UNCHANGED <<caller, max_retries, nprompts, attempt, requests, response,
                   sleeps, successes>>

\* The `except requests.exceptions.RequestException` handler of
\* call_llama_api_batch: it reads response.status_code, then sleeps.
FreeHandleRequestException(o) ==
    IF response' = "unbound"
    THEN /\ pc' = "raised"
         /\ UNCHANGED <<attempt, sleeps, result, successes>>
    ELSE /\ sleeps' = Append(sleeps, [kind |-> KindOf(o), secs |-> FreeSleep(attempt)])
         /\ attempt' = attempt + 1
         /\ UNCHANGED <<result, successes, pc>>

\* The `except Exception` handler of call_llama_api_batch.
FreeHandleException ==
    /\ result' = Repeat(Unexpected, nprompts)
    /\ pc' = "returned"
    /\ UNCHANGED <<attempt, sleeps, successes>>

\* One iteration of the loop of call_llama_api_batch. nresults is the length
\* of the JSON list of a successful response; handling is how the installed
\* requests library reports a body that is not JSON (its JSONDecodeError is a
\* RequestException from 2.27 on, a plain ValueError before).
FreeAttempt(o, nresults, handling) ==
    /\ caller = "free" /\ pc = "loop" /\ attempt < max_retries
    /\ requests' = requests + 1
    /\ response' = IF o \in NoResponse THEN response ELSE StatusOf(o)
    /\ CASE o = "ok" ->
              /\ result' = Repeat(Generated, nresults)
              /\ successes' = successes + 1
              /\ pc' = "returned"
              /\ UNCHANGED <<attempt, sleeps>>
         [] o = "badshape" -> FreeHandleException
         [] o = "badjson" ->
              IF handling = "request_exception"
              THEN FreeHandleRequestException(o)
              ELSE FreeHandleException
         [] OTHER -> FreeHandleRequestException(o)
    /\ UNCHANGED <<caller, max_retries, nprompts>>

\* The loop of call_llama_api_batch ran out: return the error list.
FreeGiveUp ==
    /\ caller = "free" /\ pc = "loop" /\ attempt >= max_retries
    /\ result' = Repeat(FailedAfter(max_retries), nprompts)
    /\ pc' = "returned"
    /\ UNCHANGED <<caller, max_retries, nprompts, attempt, requests, response,
                   sleeps, successes>>

RetryInit ==
    /\ caller \in {"batch", "free"}
    /\ max_retries \in 0..MaxRetriesBound
    /\ nprompts \in 1..MaxPrompts
    /\ attempt = 0 /\ pc = "loop" /\ requests = 0 /\ response = "unbound"
    /\ sleeps = <<>> /\ result = <<>> /\ successes = 0
    /\ IdleBut("retry")

RetryNext ==
    \/ \E o \in Outcomes : BatchAttempt(o) /\ UNCHANGED allButRetry
    \/ BatchGiveUp /\ UNCHANGED allButRetry
    \/ \E o \in Outcomes, n \in 0..MaxPrompts,
          h \in {"request_exception", "value_error"} :
          FreeAttempt(o, n, h) /\ UNCHANGED allButRetry
    \/ FreeGiveUp /\ UNCHANGED allButRetry

SpecRetry == RetryInit /\ [][RetryNext]_vars

(***************************************************************************)
(* Properties of the retry loops.                                          *)
(***************************************************************************)
Terminated == pc \in {"returned", "raised"}

\* Every attempt the loop allows was made and none succeeded.
EveryAttemptFailed == Terminated /\ successes = 0 /\ requests = max_retries

\* C1: both retry loops are fixed-size: a call issues at most max_retries
\* requests, ends by returning (never by an escaping exception), and issues
\* no request after a successful one.
C1_FixedSizeLoopReturns ==
    /\ requests <= max_retries
    /\ pc # "raised"
    /\ successes <= 1
    /\ (successes = 1 => pc = "returned")

\* C2: call_llama_api_batch retries on every kind of request failure: while
\* attempts remain every failed attempt has been followed by a backoff sleep
\* and the loop goes on to another attempt, and no exception escapes the
\* function on any attempt, the first included.
C2_FreeRetriesEveryFailure ==
    caller = "free" =>
        /\ pc # "raised"
        /\ (pc = "loop" => Len(sleeps) = requests /\ attempt = requests)

\* C3: the returned list always has one entry per prompt, and when every
\* attempt fails it is returned and holds "Error: Failed after <max_retries>
\* attempts" once per prompt.
C3_OneEntryPerPrompt ==
    /\ (pc = "returned" => Len(result) = nprompts)
    /\ (EveryAttemptFailed =>
            /\ pc = "returned"
            /\ result = Repeat(FailedAfter(max_retries), nprompts))

\* C4: in call_llama_batch_api the delay after a 429 grows exponentially: of
\* two consecutive rate-limited attempts that are both followed by another
\* attempt, the second is followed by at least twice the delay of the first.
C4_RateLimitDelayDoubles ==
    caller = "batch" =>
        \A i \in 1..(Len(sleeps) - 1) :
            (sleeps[i].kind = "429" /\ sleeps[i + 1].kind = "429"
                /\ i + 1 < max_retries)
            => sleeps[i + 1].secs >= 2 * sleeps[i].secs

\* C5: in call_llama_api_batch the delay slept after failed attempt k
\* (0-based) is exactly 2^k seconds whatever the failure was (429, 503, any
\* other request error), every failure that is retried has slept, and five
\* failures in a row sleep 1, 2, 4, 8, 16 seconds.
C5_FreeDelayIsPowerOfTwo ==
    caller = "free" =>
        /\ \A i \in 1..Len(sleeps) : sleeps[i].secs = 2 ^ (i - 1)
        /\ (pc = "loop" => Len(sleeps) = attempt)
        /\ (Len(sleeps) = FreeDefaultRetries =>
                [i \in 1..FreeDefaultRetries |-> sleeps[i].secs] = <<1, 2, 4, 8, 16>>)

\* C5 witness: the default five attempts all failed, with a 429, a 503 and
\* another request error among them, and the call gave up.
C5_Witness ==
    /\ caller = "free" /\ max_retries = FreeDefaultRetries
    /\ pc = "returned" /\ Len(sleeps) = FreeDefaultRetries
    /\ {sleeps[i].kind : i \in 1..Len(sleeps)} = {"429", "503", "err"}


(***************************************************************************)
(* JSON extraction.                                                        *)
(*                                                                         *)
(* A response string is a sequence of tokens:                              *)
(*   LB, RB  the characters { and }                                        *)
(*   X       prose that is no JSON                                         *)
(*   ERR     the text "Error: <message>" that a failed API call returns    *)
(*   N5      the JSON number 5                                             *)
(*   DEEP    a run of [ nested deeper than the interpreter's recursion     *)
(*           limit                                                         *)
(*   PEC5    the members "predicted_stars": 5, "explanation": ...,         *)
(*           "confidence": ...                                             *)
(*   P7      the member "predicted_stars": 7, alone                        *)
(*   E       the member "explanation": ..., alone                          *)
(*   LK, RK  the characters [ and ]                                        *)
(*   O1      one array item, an object with predicted_stars 4              *)
(*   O2      two array items, objects with predicted_stars 4 and 2         *)
(*   NOBJ    one array item that is no object: the number 4                *)
(* A member token is a whole comma-separated member list, an item token a  *)
(* whole comma-separated item list: two of them side by side lack the      *)
(* comma and are no JSON.                                                  *)
(* The single-review prompts get responses over Tokens, the batch prompt   *)
(* gets responses over BatchTokens.                                        *)
(***************************************************************************)
MemberLists == {"PEC5", "P7", "E"}
ItemLists == {"O1", "O2", "NOBJ"}
Tokens == {"LB", "RB", "X", "N5", "DEEP"} \cup MemberLists
BatchTokens == {"LK", "RK", "X", "N5", "DEEP"} \cup ItemLists
Texts == UNION {[1..n -> Tokens] : n \in 0..MaxLen}
BatchTexts == UNION {[1..n -> BatchTokens] : n \in 0..MaxLen}
ErrorText == <<"ERR">>

BatchItemKeys == {"review_number", "predicted_stars", "explanation", "confidence"}

ItemsOf(m) ==
    CASE m = "O1" -> <<ItemObject(BatchItemKeys, 4)>>
      [] m = "O2" -> <<ItemObject(BatchItemKeys, 4), ItemObject(BatchItemKeys, 2)>>
      [] m = "NOBJ" -> <<ItemNumber(4)>>

KeysOf(m) ==
    CASE m = "PEC5" -> {"predicted_stars", "explanation", "confidence"}
      [] m = "P7" -> {"predicted_stars"}
      [] m = "E" -> {"explanation"}

StarsOf(m) ==
    CASE m = "PEC5" -> 5
      [] m = "P7" -> 7
      [] m = "E" -> 0

\* json.loads on a string: the value, a JSONDecodeError or a RecursionError.
ParseJson(s) ==
    IF s # <<>> /\ s[1] = "DEEP"
    THEN [status |-> "recursion_error", value |-> JNone]
    ELSE IF s = <<"N5">>
    THEN [status |-> "ok", value |-> JNumber(5)]
    ELSE IF s = <<"LB", "RB">>
    THEN [status |-> "ok", value |-> JObject({}, 0)]
    ELSE IF Len(s) = 3 /\ s[1] = "LB" /\ s[2] \in MemberLists /\ s[3] = "RB"
    THEN [status |-> "ok", value |-> JObject(KeysOf(s[2]), StarsOf(s[2]))]
    ELSE IF s = <<"LK", "RK">>
    THEN [status |-> "ok", value |-> JList(<<>>)]
    ELSE IF Len(s) = 3 /\ s[1] = "LK" /\ s[2] \in ItemLists /\ s[3] = "RK"
    THEN [status |-> "ok", value |-> JList(ItemsOf(s[2]))]
    ELSE [status |-> "decode_error", value |-> JNone]

\* The tokens in which a character occurs: DEEP is made of [ characters.
Holding(c) ==
    CASE c = "{" -> {"LB"}
      [] c = "}" -> {"RB"}
      [] c = "[" -> {"LK", "DEEP"}
      [] c = "]" -> {"RK"}

\* str.find and str.rfind: a 0-based index, or -1.
Find(s, c) ==
    IF \E i \in 1..Len(s) : s[i] \in Holding(c)
    THEN (CHOOSE i \in 1..Len(s) :
              s[i] \in Holding(c) /\ \A j \in 1..(i - 1) : s[j] \notin Holding(c)) - 1
    ELSE -1

RFind(s, c) ==
    IF \E i \in 1..Len(s) : s[i] \in Holding(c)
    THEN (CHOOSE i \in 1..Len(s) :
              s[i] \in Holding(c) /\ \A j \in (i + 1)..Len(s) : s[j] \notin Holding(c)) - 1
    ELSE -1

\* s[start:end] for 0 <= start and 0 <= end <= len(s)
Slice(s, start, end) == IF end > start THEN SubSeq(s, start + 1, end) ELSE <<>>

ExtractReturn(v, st) == [status |-> "returned", value |-> v, stages |-> st]
ExtractRaise(st) == [status |-> "raised", value |-> JNone, stages |-> st]

\* The stage that scans for the first { and the last } and parses what lies
\* between. caught is the set of json.loads failures the except clause
\* around it catches.
BracketStage(s, caught) ==
    LET start == Find(s, "{")
        end == RFind(s, "}") + 1
        st == <<"direct", "bracket">>
    IN  IF start # -1 /\ end # 0
        THEN LET r == ParseJson(Slice(s, start, end))
             IN  IF r.status = "ok" THEN ExtractReturn(r.value, st)
                 ELSE IF r.status \in caught THEN ExtractReturn(JNone, st)
                 ELSE ExtractRaise(st)
        ELSE ExtractReturn(JNone, st)

\* Both stages, with the failures each except clause catches.
StagedExtract(s, caught) ==
    LET r == ParseJson(s)
    IN  IF r.status = "ok" THEN ExtractReturn(r.value, <<"direct">>)
        ELSE IF r.status \in caught THEN BracketStage(s, caught)
        ELSE ExtractRaise(<<"direct">>)

\* An extract_json with a third stage: when both stages fail, a pattern
\* search for a predicted_stars member.
ExtractJsonWithPatternStage(s) ==
    LET r == StagedExtract(s, {"decode_error", "recursion_error"})
        hits == {i \in 1..Len(s) : s[i] \in {"PEC5", "P7"}}
    IN  IF r.value = JNone /\ Len(r.stages) = 2 /\ hits # {}
        THEN LET m == s[CHOOSE i \in hits : \A j \in hits : i <= j]
             IN  ExtractReturn(JObject(KeysOf(m), StarsOf(m)),
                               <<"direct", "bracket", "regex">>)
        ELSE r

\* extract_json of app.py: bare except clauses.
ExtractJsonApp(s) == StagedExtract(s, {"decode_error", "recursion_error"})

\* extract_json of task1_evaluation_llama_free.py: except json.JSONDecodeError.
ExtractJsonFree(s) == StagedExtract(s, {"decode_error"})

\* The fallback list of extract_json_batch: one default object per review.
DefaultBatch(n) == JList([i \in 1..n |-> ItemObject(BatchItemKeys, DefaultStars)])

\* extract_json_batch: the whole response when it parses to a list; else what
\* lies from the first [ to the last ] when that parses to a list; else the
\* defaults. Both except clauses are bare.
ExtractJsonBatch(s, n) ==
    LET r == ParseJson(s)
        start == Find(s, "[")
        end == RFind(s, "]") + 1
        r2 == ParseJson(Slice(s, start, end))
    IN  IF r.status = "ok" /\ r.value.kind = "list"
        THEN ExtractReturn(r.value, <<"direct">>)
        ELSE IF start # -1 /\ end > start /\ r2.status = "ok" /\ r2.value.kind = "list"
        THEN ExtractReturn(r2.value, <<"direct", "bracket">>)
        ELSE ExtractReturn(DefaultBatch(n), <<"direct", "bracket", "default">>)

\* Python truthiness of a JSON value.
Truthy(v) ==
    \/ v.kind = "object" /\ v.keys # {}
    \/ v.kind = "number" /\ v.num # 0
    \/ v.kind = "list" /\ v.items # <<>>

DefaultResult ==
    JObject({"predicted_stars", "explanation", "confidence"}, DefaultStars)

\* call_llm_api: the model's content, or the error text when the call fails.
CallLlmApi ==
    /\ variant = "app" /\ jpc = "call"
    /\ \E ok \in BOOLEAN, content \in Texts :
          text' = IF ok THEN content ELSE ErrorText
    /\ jpc' = "extract"
    /\ UNCHANGED <<variant, batch_size, extracted, stages, prediction>>

\* evaluate_approach takes one response of call_llama_api_batch: generated
\* text, or an error string.
FreeResponse ==
    /\ variant = "free" /\ jpc = "call"
    /\ \E ok \in BOOLEAN, content \in Texts :
          text' = IF ok THEN content ELSE ErrorText
    /\ jpc' = "extract"
    /\ UNCHANGED <<variant, batch_size, extracted, stages, prediction>>

\* evaluate_approach_batch takes batch_responses[0] of call_llama_batch_api,
\* generated text or the error string, for a batch of 1..BATCH_SIZE reviews.
BatchResponse ==
    /\ variant = "batch" /\ jpc = "call"
    /\ \E ok \in BOOLEAN, content \in BatchTexts :
          text' = IF ok THEN content ELSE ErrorText
    /\ \E n \in 1..MaxPrompts : batch_size' = n
    /\ jpc' = "extract"
    /\ UNCHANGED <<variant, extracted, stages, prediction>>

\* extract_json_batch(batch_responses[0], len(batch_reviews))
BatchExtract ==
    /\ variant = "batch" /\ jpc = "extract"
    /\ LET r == ExtractJsonBatch(text, batch_size)
       IN  /\ extracted' = r.value
           /\ stages' = r.stages
           /\ jpc' = "extracted"
    /\ UNCHANGED <<variant, text, batch_size, prediction>>

\* extract_json(response)
ExtractJson ==
    /\ variant \in {"app", "free"} /\ jpc = "extract"
    /\ LET r == IF variant = "app" THEN ExtractJsonApp(text) ELSE ExtractJsonFree(text)
       IN  /\ extracted' = r.value
           /\ stages' = r.stages
           /\ jpc' = IF r.status = "raised" THEN "extract_raised" ELSE "extracted"
    /\ UNCHANGED <<variant, text, batch_size, prediction>>

\* predict_rating after extract_json:
\*   if result and 'predicted_stars' in result: return result, else the default.
\* `in` on a number raises TypeError; a list of dicts and numbers does not
\* hold the string.
PredictRating ==
    /\ variant = "app" /\ jpc = "extracted"
    /\ IF ~Truthy(extracted)
       THEN prediction' = DefaultResult /\ jpc' = "done"
       ELSE IF extracted.kind = "number"
       THEN prediction' = prediction /\ jpc' = "predict_raised"
       ELSE IF extracted.kind = "object" /\ "predicted_stars" \in extracted.keys
       THEN prediction' = extracted /\ jpc' = "done"
       ELSE prediction' = DefaultResult /\ jpc' = "done"
    /\ UNCHANGED <<variant, text, batch_size, extracted, stages>>

JsonInit ==
    /\ variant \in {"app", "free", "batch"}
    /\ jpc = "call" /\ text = <<>> /\ batch_size = 0
    /\ extracted = JNone /\ stages = <<>> /\ prediction = JNone
    /\ IdleBut("json")

JsonNext ==
    \/ CallLlmApi /\ UNCHANGED allButJson
    \/ FreeResponse /\ UNCHANGED allButJson
    \/ BatchResponse /\ UNCHANGED allButJson
    \/ BatchExtract /\ UNCHANGED allButJson
    \/ ExtractJson /\ UNCHANGED allButJson
    \/ PredictRating /\ UNCHANGED allButJson

SpecJson == JsonInit /\ [][JsonNext]_vars

(***************************************************************************)
(* Properties of JSON extraction and predict_rating.                       *)
(***************************************************************************)
ExtractionDone == jpc \in {"extracted", "done", "predict_raised"}

\* Whether a character of `open` and one of `close` occur in s, and the
\* substring from the first of the former to the last of the latter.
HasBoth(s, open, close) ==
    (\E i \in 1..Len(s) : s[i] \in open) /\ (\E i \in 1..Len(s) : s[i] \in close)

Between(s, open, close) ==
    LET first == CHOOSE i \in 1..Len(s) :
                     s[i] \in open /\ \A j \in 1..Len(s) : s[j] \in open => i <= j
        last == CHOOSE i \in 1..Len(s) :
                    s[i] \in close /\ \A j \in 1..Len(s) : s[j] \in close => j <= i
    IN  SubSeq(s, first, last)

\* extract_json: the whole response parses; what lies from the first { to the
\* last } parses.
DirectParses(s) == ParseJson(s).status = "ok"
BracketParses(s) ==
    HasBoth(s, {"LB"}, {"RB"}) /\ ParseJson(Between(s, {"LB"}, {"RB"})).status = "ok"

\* extract_json_batch: the whole response parses to a list; what lies from
\* the first [ to the last ] parses to a list.
IsList(r) == r.status = "ok" /\ r.value.kind = "list"
DirectParsesList(s) == IsList(ParseJson(s))
BracketParsesList(s) ==
    HasBoth(s, {"LK", "DEEP"}, {"RK"})
        /\ IsList(ParseJson(Between(s, {"LK", "DEEP"}, {"RK"})))

BothStagesFail ==
    IF variant = "batch"
    THEN ~DirectParsesList(text) /\ ~BracketParsesList(text)
    ELSE ~DirectParses(text) /\ ~BracketParses(text)

\* C6: extract_json is a staged best-effort extraction: the parse of the whole
\* response when it parses; otherwise the parse of the substring from the
\* first { to the last } when both occur and it parses; otherwise None; and it
\* raises on no string.
C6_StagedExtraction ==
    variant \in {"app", "free"} =>
        /\ jpc # "extract_raised"
        /\ (ExtractionDone =>
                extracted =
                    IF DirectParses(text) THEN ParseJson(text).value
                    ELSE IF BracketParses(text)
                    THEN ParseJson(Between(text, {"LB"}, {"RB"})).value
                    ELSE JNone)

\* C7 as stated: when direct parsing and bracket scanning both fail, a
\* regex-based fallback stage runs before extraction gives up.
C7_RegexFallbackRuns ==
    (ExtractionDone /\ BothStagesFail) =>
        \E i \in 1..Len(stages) : stages[i] = "regex"

\* C7 as amended: when direct parsing and bracket scanning both fail, no
\* further parsing stage runs: extract_json returns None at once (and
\* predict_rating then returns the default result), extract_json_batch
\* returns batch_size default entries at once.
C7_NoFallbackStage ==
    (ExtractionDone /\ BothStagesFail) =>
        IF variant = "batch"
        THEN /\ stages = <<"direct", "bracket", "default">>
             /\ extracted = DefaultBatch(batch_size)
        ELSE /\ stages = <<"direct", "bracket">>
             /\ extracted = JNone
             /\ (jpc = "done" => prediction = DefaultResult)

\* C7 witness: a response cut off before its closing brace holds a
\* predicted_stars member, both stages fail, and predict_rating gave the
\* default.
C7_Witness ==
    /\ variant = "app" /\ jpc = "done" /\ text = <<"LB", "PEC5">>
    /\ BothStagesFail
    /\ stages = <<"direct", "bracket">>
    /\ prediction = DefaultResult

\* C8: every prediction predict_rating produces has predicted_stars equal to
\* an integer in 1..5.
C8_StarsInRange ==
    (variant = "app" /\ jpc = "done") =>
        /\ prediction.kind = "object"
        /\ "predicted_stars" \in prediction.keys
        /\ prediction.num \in MinStars..MaxStars

\* C9: for every model response predict_rating returns, without raising, a
\* mapping that contains predicted_stars, explanation and confidence.
C9_ThreeFields ==
    variant = "app" =>
        /\ jpc # "predict_raised"
        /\ (jpc = "done" =>
                /\ prediction.kind = "object"
                /\ {"predicted_stars", "explanation", "confidence"} \subseteq prediction.keys)

\* C21: predict_rating returns the default result exactly when the LLM call
\* failed (the response is the error text) or no JSON value holding
\* predicted_stars could be extracted from the response, and in every other
\* case returns the extracted value unchanged.
C21_DefaultExactlyOnFailure ==
    (variant = "app" /\ jpc \in {"done", "predict_raised"}) =>
        /\ jpc = "done"
        /\ IF \/ text = <<"ERR">>
              \/ ~(extracted.kind = "object" /\ "predicted_stars" \in extracted.keys)
           THEN prediction = [kind |-> "object",
                              keys |-> {"predicted_stars", "explanation", "confidence"},
                              num |-> 3, items |-> <<>>]
           ELSE prediction = extracted

(***************************************************************************)
(* Metrics of the evaluation scripts.                                      *)
(*                                                                         *)
(* A row is one review: its prediction, its actual rating, and whether its *)
(* JSON was valid. A metric is a fraction, kept as numerator and           *)
(* denominator.                                                            *)
(***************************************************************************)
Stars == MinStars..MaxStars
PredValues == MinStars..(MaxStars + 1)

Abs(x) == IF x < 0 THEN -x ELSE x

\* prediction = actual
ExactMatch(p, a) == p = a

\* An off-by-one test that leaves out the exact matches.
OffByOneOnly(p, a) == Abs(p - a) = 1

\* abs(p - a) <= 1
OffByOne(p, a) == Abs(p - a) <= 1

\* df[df[..._JSON_Valid]]: the rows whose JSON was valid, in order.
RECURSIVE ValidRows(_)
ValidRows(rs) ==
    IF rs = <<>> THEN <<>>
    ELSE IF rs[1].valid THEN <<rs[1]>> \o ValidRows(Tail(rs))
    ELSE ValidRows(Tail(rs))

\* sum(... for p, a in zip(predictions, actual_ratings))
RECURSIVE CountExact(_)
CountExact(rs) ==
    IF rs = <<>> THEN 0
    ELSE (IF ExactMatch(rs[1].pred, rs[1].actual) THEN 1 ELSE 0) + CountExact(Tail(rs))

RECURSIVE CountOffByOne(_)
CountOffByOne(rs) ==
    IF rs = <<>> THEN 0
    ELSE (IF OffByOne(rs[1].pred, rs[1].actual) THEN 1 ELSE 0) + CountOffByOne(Tail(rs))

\* mean_absolute_error: the sum of |actual - prediction|, to be divided by
\* the number of rows.
RECURSIVE SumAbsError(_)
SumAbsError(rs) ==
    IF rs = <<>> THEN 0
    ELSE Abs(rs[1].actual - rs[1].pred) + SumAbsError(Tail(rs))

\* The metrics at the end of evaluate_approach_batch: over all the rows.
BatchMetrics(rs) ==
    [acc_num |-> CountExact(rs), acc_den |-> Len(rs),
     obo_num |-> CountOffByOne(rs), obo_den |-> Len(rs),
     mae_num |-> SumAbsError(rs), mae_den |-> Len(rs),
     rate_num |-> Len(ValidRows(rs)), rate_den |-> Len(rs),
     valid |-> Len(ValidRows(rs)), total |-> Len(rs)]

\* A calculate_metrics that scores every row, valid or not.
FreeMetricsOverAllRows(rs) == BatchMetrics(rs)

\* calculate_metrics: over the rows whose JSON was valid, zeros when none is.
FreeMetrics(rs) ==
    LET v == ValidRows(rs)
    IN  IF v = <<>>
        THEN [acc_num |-> 0, acc_den |-> 1, obo_num |-> 0, obo_den |-> 1,
              mae_num |-> 0, mae_den |-> 1, rate_num |-> 0, rate_den |-> 1,
              valid |-> 0, total |-> Len(rs)]
        ELSE [acc_num |-> CountExact(v), acc_den |-> Len(v),
              obo_num |-> CountOffByOne(v), obo_den |-> Len(v),
              mae_num |-> SumAbsError(v), mae_den |-> Len(v),
              rate_num |-> Len(v), rate_den |-> Len(rs),
              valid |-> Len(v), total |-> Len(rs)]

\* evaluate_approach_batch appends one prediction and its actual rating, and
\* counts the row in valid_responses.
BatchAppendRow ==
    /\ script = "batch" /\ mpc = "collect" /\ Len(rows) < MaxRows
    /\ \E p \in PredValues, a \in Stars :
          rows' = Append(rows, [pred |-> p, actual |-> a, valid |-> TRUE])
    /\ UNCHANGED <<mpc, script, metrics>>

\* evaluate_approach appends one prediction (None, kept as 0, when the JSON
\* was not valid) and its validity; the actual rating is the row's stars.
FreeAppendRow ==
    /\ script = "free" /\ mpc = "collect" /\ Len(rows) < MaxRows
    /\ \E p \in PredValues, a \in Stars, v \in BOOLEAN :
          rows' = Append(rows, [pred |-> IF v THEN p ELSE 0, actual |-> a, valid |-> v])
    /\ UNCHANGED <<mpc, script, metrics>>

\* The metrics of evaluate_approach_batch; __main__ runs it on a dataset
\* that is not empty.
BatchScore ==
    /\ script = "batch" /\ mpc = "collect" /\ rows # <<>>
    /\ metrics' = BatchMetrics(rows)
    /\ mpc' = "scored"
    /\ UNCHANGED <<script, rows>>

\* calculate_metrics(df, approach_name)
FreeScore ==
    /\ script = "free" /\ mpc = "collect" /\ rows # <<>>
    /\ metrics' = FreeMetrics(rows)
    /\ mpc' = "scored"
    /\ UNCHANGED <<script, rows>>

MetricsInit ==
    /\ script \in {"batch", "free"}
    /\ mpc = "collect" /\ rows = <<>> /\ metrics = NoMetrics
    /\ IdleBut("metrics")

MetricsNext ==
    \/ BatchAppendRow /\ UNCHANGED allButMetrics
    \/ FreeAppendRow /\ UNCHANGED allButMetrics
    \/ BatchScore /\ UNCHANGED allButMetrics
    \/ FreeScore /\ UNCHANGED allButMetrics

SpecMetrics == MetricsInit /\ [][MetricsNext]_vars

(***************************************************************************)
(* Properties of the metrics.                                              *)
(***************************************************************************)
\* The indices of the rows a script scores.
ScoredRows ==
    {i \in 1..Len(rows) : script = "batch" \/ rows[i].valid}

\* C10: accuracy is the fraction of scored pairs with prediction = actual,
\* off-by-one accuracy the fraction with |prediction - actual| <= 1, both
\* over the same pairs, so that 0 <= accuracy <= off-by-one accuracy <= 1.
C10_AccuracyWithinOffByOne ==
    mpc = "scored" =>
        /\ (ScoredRows # {} =>
                /\ metrics.acc_den = Cardinality(ScoredRows)
                /\ metrics.obo_den = Cardinality(ScoredRows)
                /\ metrics.acc_num =
                       Cardinality({i \in ScoredRows : rows[i].pred = rows[i].actual})
                /\ metrics.obo_num =
                       Cardinality({i \in ScoredRows :
                                       /\ rows[i].pred - rows[i].actual <= 1
                                       /\ rows[i].actual - rows[i].pred <= 1}))
        /\ metrics.acc_den > 0 /\ metrics.obo_den > 0
        /\ 0 <= metrics.acc_num
        /\ metrics.acc_num * metrics.obo_den <= metrics.obo_num * metrics.acc_den
        /\ metrics.obo_num <= metrics.obo_den

\* C10 witness: two pairs were scored, one exact and one off by one star:
\* accuracy 1/2, off-by-one accuracy 2/2.
C10_Witness ==
    /\ mpc = "scored" /\ Len(rows) = 2 /\ ScoredRows = {1, 2}
    /\ metrics.acc_num = 1 /\ metrics.acc_den = 2
    /\ metrics.obo_num = 2 /\ metrics.obo_den = 2

\* C22: calculate_metrics computes accuracy, MAE and off-by-one accuracy
\* over the rows whose JSON was valid and over no other row; it reports
\* JSON Validity Rate = Valid Predictions / Total Predictions with
\* 0 <= Valid Predictions <= Total Predictions; when no row is valid the
\* four metrics are 0 and Valid Predictions is 0.
C22_MetricsOverValidRows ==
    (script = "free" /\ mpc = "scored") =>
        LET V == {i \in 1..Len(rows) : rows[i].valid}
            diff(i) == IF rows[i].pred >= rows[i].actual
                       THEN rows[i].pred - rows[i].actual
                       ELSE rows[i].actual - rows[i].pred
        IN  /\ metrics.total = Len(rows)
            /\ metrics.valid = Cardinality(V)
            /\ 0 <= metrics.valid /\ metrics.valid <= metrics.total
            /\ metrics.acc_den > 0 /\ metrics.mae_den > 0
            /\ metrics.obo_den > 0 /\ metrics.rate_den > 0
            /\ metrics.rate_num * metrics.total = metrics.valid * metrics.rate_den
            /\ IF V = {}
               THEN /\ metrics.acc_num = 0 /\ metrics.mae_num = 0
                    /\ metrics.obo_num = 0 /\ metrics.rate_num = 0
               ELSE /\ metrics.acc_den = Cardinality(V)
                    /\ metrics.mae_den = Cardinality(V)
                    /\ metrics.obo_den = Cardinality(V)
                    /\ metrics.acc_num = Cardinality({i \in V : diff(i) = 0})
                    /\ metrics.obo_num = Cardinality({i \in V : diff(i) <= 1})
                    /\ metrics.mae_num =
                           Cardinality({e \in V \X (1..5) : diff(e[1]) >= e[2]})

\* C22 witness: of two rows the first is valid and two stars off, the
\* second is not valid: accuracy 0/1, MAE 2/1, validity rate 1/2.
C22_Witness ==
    /\ script = "free" /\ mpc = "scored" /\ Len(rows) = 2
    /\ rows[1].valid /\ ~rows[2].valid
    /\ metrics.acc_num = 0 /\ metrics.acc_den = 1
    /\ metrics.mae_num = 2 /\ metrics.mae_den = 1
    /\ metrics.valid = 1 /\ metrics.total = 2

(***************************************************************************)
(* The evaluation loops: evaluate_approach_batch and evaluate_approach.    *)
(*                                                                         *)
(* Reviews are numbered from 0 as df.iloc numbers them. An action is one   *)
(* iteration of the batch loop, or the code after the loop.                *)
(***************************************************************************)
Min(a, b) == IF a <= b THEN a ELSE b

\* The dataset: load_dataset keeps the reviews with 1 to 5 stars.
DatasetStars(i) == MinStars + (i % (MaxStars - MinStars + 1))

\* An entry of actual_ratings: the rating, with the review it belongs to.
RatingOf(i) == [review |-> i, stars |-> DatasetStars(i)]

\* A batch count that drops the incomplete last batch.
TotalBatchesFloor(n) == n \div BATCH_SIZE

\* total_batches = (len(df) + BATCH_SIZE - 1) // BATCH_SIZE
TotalBatches(n) == (n + BATCH_SIZE - 1) \div BATCH_SIZE

\* batch_start = batch_idx * BATCH_SIZE
BatchStart(b) == b * BATCH_SIZE

\* batch_end = min((batch_idx + 1) * BATCH_SIZE, len(df))
BatchEnd(b, n) == Min((b + 1) * BATCH_SIZE, n)

\* df['stars'].iloc[batch_start:batch_end].tolist()
BatchRatings(start, end) == [k \in 1..(end - start) |-> RatingOf(start + k - 1)]

\* The text the model generates for a batch prompt, in the cases that matter
\* to the loop: an array of one, of two, of no entries, an array whose entry
\* is no object, an array inside prose, and prose.
GeneratedTexts ==
    { <<"LK", "O1", "RK">>, <<"LK", "O2", "RK">>, <<"LK", "NOBJ", "RK">>,
      <<"LK", "RK">>, <<"X", "LK", "O1", "RK">>, <<"X">> }

\* call_llama_batch_api(batch_prompts) with its default max_retries: it
\* returns generated text after 1..max_retries requests, the last of them
\* successful, or the error text after max_retries failed requests.
BatchCallOutcomes ==
    {[requests |-> r, text |-> t] : r \in 1..BatchDefaultRetries, t \in GeneratedTexts}
    \cup {[requests |-> BatchDefaultRetries, text |-> ErrorText]}

\* The loop `for i, result in enumerate(batch_results)` from entry i on.
\* result.get raises AttributeError on an entry that is no dict, and
\* batch_ratings[i] raises IndexError past the end of the batch: inside the
\* try after the prediction was appended, and again inside the handler, from
\* where it leaves the function. acc.read counts the entries whose
\* prediction was read with result.get.
RECURSIVE ProcessResults(_, _, _, _)
ProcessResults(items, ratings, i, acc) ==
    IF i >= Len(items) THEN acc
    ELSE LET item == items[i + 1]
             inrange == i < Len(ratings)
         IN  IF item.kind = "object"
             THEN LET p == IF "predicted_stars" \in item.keys
                           THEN item.num ELSE DefaultStars
                  IN  IF inrange
                      THEN ProcessResults(items, ratings, i + 1,
                               [acc EXCEPT !.preds = Append(@, p),
                                           !.actuals = Append(@, ratings[i + 1]),
                                           !.valid = @ + 1,
                                           !.read = @ + 1])
                      ELSE [acc EXCEPT !.preds = @ \o <<p, DefaultStars>>,
                                       !.raised = TRUE]
             ELSE IF inrange
                  THEN ProcessResults(items, ratings, i + 1,
                           [acc EXCEPT !.preds = Append(@, DefaultStars),
                                       !.actuals = Append(@, ratings[i + 1])])
                  ELSE [acc EXCEPT !.preds = Append(@, DefaultStars),
                                   !.raised = TRUE]

\* One iteration of the batch loop of evaluate_approach_batch. The list that
\* call_llama_batch_api returns has one string per prompt and a batch has at
\* least one review, so the branch for an empty batch_responses is never
\* taken.
EvalBatchStep ==
    /\ escript = "batch" /\ epc = "loop" /\ batch_idx < TotalBatches(nreviews)
    /\ \E call \in BatchCallOutcomes :
          LET start == BatchStart(batch_idx)
              end == BatchEnd(batch_idx, nreviews)
              r == ExtractJsonBatch(call.text, end - start)
              acc == ProcessResults(r.value.items, BatchRatings(start, end), 0,
                         [preds |-> predictions, actuals |-> actual_ratings,
                          valid |-> 0, read |-> 0, raised |-> FALSE])
          IN  /\ http_requests' = http_requests + call.requests
              /\ batches' = Append(batches, [start |-> start, end |-> end])
              /\ predictions' = acc.preds
              /\ actual_ratings' = acc.actuals
              /\ valid_responses' = valid_responses + acc.valid
              /\ from_json' = from_json +
                     (IF r.stages[Len(r.stages)] = "default" THEN 0 ELSE acc.read)
              /\ epc' = IF acc.raised THEN "raised" ELSE "loop"
              /\ batch_idx' = IF acc.raised THEN batch_idx ELSE batch_idx + 1
    /\ UNCHANGED <<escript, nreviews, report>>

\* evaluate_approach_batch after the loop: the metrics divide by
\* len(predictions).
EvalBatchFinish ==
    /\ escript = "batch" /\ epc = "loop" /\ batch_idx >= TotalBatches(nreviews)
    /\ IF predictions = <<>>
       THEN epc' = "raised" /\ report' = report
       ELSE /\ epc' = "done"
            /\ report' = [validity_num |-> valid_responses,
                          validity_den |-> Len(predictions),
                          total_reviews |-> Len(predictions),
                          valid_responses |-> valid_responses,
                          api_calls_made |-> TotalBatches(nreviews)]
    /\ UNCHANGED <<escript, nreviews, batch_idx, batches, predictions,
                   actual_ratings, valid_responses, from_json, http_requests>>

\* None in the predictions of evaluate_approach.
NoPrediction == 0

\* One iteration of the batch loop of evaluate_approach. call_llama_api_batch
\* raises, or returns nresp responses; extract_json and the test on its
\* result raise, or every response gives a prediction (kind "valid"), or
\* every response gives None (kind "invalid").
FreeEvalStep ==
    /\ escript = "free" /\ epc = "loop" /\ batch_idx < TotalBatches(nreviews)
    /\ LET start == BatchStart(batch_idx)
           end == BatchEnd(batch_idx, nreviews)
       IN  /\ batches' = Append(batches, [start |-> start, end |-> end])
           /\ \E kind \in {"call_raised", "extract_raised", "valid", "invalid"},
                 nresp \in {end - start - 1, end - start, end - start + 1} :
                 IF kind \in {"call_raised", "extract_raised"}
                 THEN /\ epc' = "raised"
                      /\ UNCHANGED <<batch_idx, predictions>>
                 ELSE /\ predictions' = predictions \o
                             Repeat(IF kind = "valid" THEN MaxStars ELSE NoPrediction,
                                    nresp)
                      /\ batch_idx' = batch_idx + 1
                      /\ epc' = "loop"
    /\ UNCHANGED <<escript, nreviews, actual_ratings, valid_responses, from_json,
                   http_requests, report>>

\* evaluate_approach after the loop: the predictions become a column of df,
\* which raises ValueError when their number is not len(df).
FreeEvalFinish ==
    /\ escript = "free" /\ epc = "loop" /\ batch_idx >= TotalBatches(nreviews)
    /\ epc' = IF Len(predictions) = nreviews THEN "done" ELSE "raised"
    /\ UNCHANGED <<escript, nreviews, batch_idx, batches, predictions,
                   actual_ratings, valid_responses, from_json, http_requests,
                   report>>

EvalInit ==
    /\ escript \in {"batch", "free"}
    /\ nreviews \in 1..MaxReviews
    /\ epc = "loop" /\ batch_idx = 0 /\ batches = <<>>
    /\ predictions = <<>> /\ actual_ratings = <<>>
    /\ valid_responses = 0 /\ from_json = 0 /\ http_requests = 0
    /\ report = NoReport
    /\ IdleBut("eval")

EvalNext ==
    \/ EvalBatchStep /\ UNCHANGED allButEval
    \/ EvalBatchFinish /\ UNCHANGED allButEval
    \/ FreeEvalStep /\ UNCHANGED allButEval
    \/ FreeEvalFinish /\ UNCHANGED allButEval

SpecEval == EvalInit /\ [][EvalNext]_vars

(***************************************************************************)
(* Properties of the evaluation loops.                                     *)
(***************************************************************************)
BatchEvalDone == escript = "batch" /\ epc = "done"

\* C11: the JSON validity rate that evaluate_approach_batch reports is the
\* fraction of the reviews whose prediction was read from a parsed model
\* response; a review given the 3-star default is not counted as valid.
C11_ValidityCountsParsedOnly ==
    BatchEvalDone =>
        report.validity_num * nreviews = from_json * report.validity_den

\* C12: evaluating n reviews issues exactly ceil(n / BATCH_SIZE) HTTP
\* requests, and api_calls_made is the number of requests issued.
C12_OneRequestPerBatch ==
    BatchEvalDone =>
        /\ http_requests * BATCH_SIZE >= nreviews
        /\ (http_requests - 1) * BATCH_SIZE < nreviews
        /\ report.api_calls_made = http_requests

\* C13: evaluate_approach_batch does not raise, and when it has finished
\* predictions and actual_ratings have one entry per review, the i-th being
\* of the i-th review.
C13_OnePredictionPerReview ==
    (escript = "batch" /\ epc # "loop") =>
        /\ epc = "done"
        /\ Len(predictions) = nreviews
        /\ Len(actual_ratings) = nreviews
        /\ \A i \in 1..Len(actual_ratings) : actual_ratings[i].review = i - 1

\* C14: the batches partition the dataset. The batches taken so far follow
\* one another from review 0, each is non-empty and has at most BATCH_SIZE
\* reviews; once the loop is over there are ceil(n / BATCH_SIZE) of them,
\* they end at review n - 1, every review is in exactly one of them, and
\* only the last is smaller than BATCH_SIZE.
C14_BatchesPartition ==
    LET nb == Len(batches)
        size(k) == batches[k].end - batches[k].start
    IN  /\ \A k \in 1..nb :
              /\ batches[k].start = (IF k = 1 THEN 0 ELSE batches[k - 1].end)
              /\ size(k) >= 1 /\ size(k) <= BATCH_SIZE
        /\ (epc \in {"loop", "done"} /\ batch_idx >= TotalBatches(nreviews)) =>
              /\ nb * BATCH_SIZE >= nreviews
              /\ (nb - 1) * BATCH_SIZE < nreviews
              /\ batches[nb].end = nreviews
              /\ \A k \in 1..(nb - 1) : size(k) = BATCH_SIZE
              /\ \A i \in 0..(nreviews - 1) :
                    Cardinality({k \in 1..nb :
                        batches[k].start <= i /\ i < batches[k].end}) = 1

\* A finished evaluation of more than two batches whose last batch is
\* smaller than the others.
C14_Witness ==
    /\ epc = "done" /\ nreviews > 2 * BATCH_SIZE /\ nreviews % BATCH_SIZE # 0
    /\ Len(batches) = 3
    /\ batches[3].end - batches[3].start < BATCH_SIZE

(***************************************************************************)
(* The batch evaluation script: the loop over the prompting approaches     *)
(* and the results summary.                                                *)
(***************************************************************************)
approaches == <<"zero_shot", "few_shot", "chain_of_thought", "hybrid">>

\* What evaluate_approach_batch(df.copy(), approach) does on n reviews: it
\* raises, or returns results, of which the model keeps the number of
\* correct predictions.
EvaluateOutcomes(n) ==
    {[kind |-> "error", correct |-> 0]}
    \cup {[kind |-> "results", correct |-> k] : k \in 0..n}

\* A loop without the try: an exception leaves the script.
UncaughtPc(outcome) == IF outcome.kind = "error" THEN "raised" ELSE "loop"

\* try / except Exception around the evaluation: the loop goes on.
CaughtPc(outcome) == "loop"

\* `if 'error' not in results`
InSummary(entry) == ~entry.error

\* if df.empty: nothing is evaluated.
MainDatasetEmpty ==
    /\ main_pc = "loop" /\ main_df = 0
    /\ main_pc' = "done"
    /\ UNCHANGED <<main_df, approach_idx, all_results, summary_data>>

\* One iteration of `for approach in approaches`. An entry of all_results
\* keeps the approach, whether it is {'error': ...}, the size of the dataset
\* the evaluation was given, and the number of correct predictions.
MainEvaluate ==
    /\ main_pc = "loop" /\ main_df > 0 /\ approach_idx < Len(approaches)
    /\ \E outcome \in EvaluateOutcomes(main_df) :
          /\ all_results' = Append(all_results,
                 [approach |-> approaches[approach_idx + 1],
                  error |-> outcome.kind = "error",
                  dataset |-> main_df,
                  correct |-> outcome.correct])
          /\ main_pc' = CaughtPc(outcome)
    /\ approach_idx' = approach_idx + 1
    /\ UNCHANGED <<main_df, summary_data>>

\* The results summary, after the loop.
MainSummary ==
    /\ main_pc = "loop" /\ main_df > 0 /\ approach_idx >= Len(approaches)
    /\ summary_data' = SelectSeq(all_results, InSummary)
    /\ main_pc' = "done"
    /\ UNCHANGED <<main_df, approach_idx, all_results>>

MainInit ==
    /\ main_pc = "loop" /\ main_df \in 0..MaxRows /\ approach_idx = 0
    /\ all_results = <<>> /\ summary_data = <<>>
    /\ IdleBut("main")

MainNext ==
    \/ MainDatasetEmpty /\ UNCHANGED allButMain
    \/ MainEvaluate /\ UNCHANGED allButMain
    \/ MainSummary /\ UNCHANGED allButMain

SpecMain == MainInit /\ [][MainNext]_vars

(***************************************************************************)
(* Properties of the batch evaluation script.                              *)
(***************************************************************************)
\* C15: the four approaches are evaluated in the order zero_shot, few_shot,
\* chain_of_thought, hybrid, each on the loaded dataset; an exception in one
\* evaluation is recorded as that approach's error and the script goes on
\* to the remaining approaches; the summary has exactly the approaches
\* without an error.
C15_AllApproachesEvaluated ==
    /\ main_pc # "raised"
    /\ Len(all_results) = approach_idx
    /\ \A k \in 1..Len(all_results) :
          /\ all_results[k].approach =
                 <<"zero_shot", "few_shot", "chain_of_thought", "hybrid">>[k]
          /\ all_results[k].dataset = main_df
    /\ (main_pc = "done" /\ main_df > 0) =>
          /\ Len(all_results) = 4
          /\ \A k \in 1..4 :
                (\E j \in 1..Len(summary_data) :
                     summary_data[j].approach = all_results[k].approach)
                <=> ~all_results[k].error
          /\ \A j \in 1..Len(summary_data) :
                /\ \E k \in 1..4 : summary_data[j] = all_results[k]
                /\ \A i \in 1..(j - 1) :
                      summary_data[i].approach # summary_data[j].approach

\* The script finished after the first and the third evaluation raised.
C15_Witness ==
    /\ main_pc = "done" /\ Len(all_results) = 4
    /\ all_results[1].error /\ ~all_results[2].error
    /\ all_results[3].error /\ ~all_results[4].error
    /\ Len(summary_data) = 2

(***************************************************************************)
(* The user dashboard: user_dashboard_predict.                             *)
(*                                                                         *)
(* A review text is a sequence of characters, a letter "a" or a blank.     *)
(***************************************************************************)
Chars == {"a", " "}
ReviewTexts == UNION {[1..n -> Chars] : n \in 0..MaxChars}

\* str.strip(): the text without its leading and trailing whitespace.
Strip(s) ==
    LET solid == {i \in 1..Len(s) : s[i] # " "}
    IN  IF solid = {} THEN <<>>
        ELSE SubSeq(s, CHOOSE i \in solid : \A j \in solid : i <= j,
                       CHOOSE i \in solid : \A j \in solid : j <= i)

\* A test of the length that does not strip.
RejectsUnstripped(s) == s = <<>> \/ Len(s) < MinReviewChars

\* not review_text or len(review_text.strip()) < 10
Rejects(s) == s = <<>> \/ Len(Strip(s)) < MinReviewChars

\* ("⚠️", "Please enter a valid review (at least 10 characters)", "", "")
WarningTuple ==
    [rating |-> "warning",
     explanation |-> "Please enter a valid review (at least 10 characters)",
     confidence |-> "", time |-> "", stars |-> 0]

\* The tuple for a prediction: the star display, the explanation, the
\* confidence and the time taken.
RatingTuple(stars) ==
    [rating |-> "stars", explanation |-> "explanation",
     confidence |-> "confidence", time |-> "elapsed", stars |-> stars]

\* What call_llm_api returns to predict_rating, in the cases that matter: a
\* JSON object with the three fields, prose, the JSON number 5, and the
\* error text of a failed request.
LlmResponses == {<<"LB", "PEC5", "RB">>, <<"X">>, <<"N5">>, ErrorText}

\* predict_rating on a response: the dict it returns, or the TypeError of
\* `'predicted_stars' in result` on a number.
PredictOutcome(resp) ==
    LET r == ExtractJsonApp(resp)
    IN  IF ~Truthy(r.value) THEN [raised |-> FALSE, value |-> DefaultResult]
        ELSE IF r.value.kind = "number" THEN [raised |-> TRUE, value |-> JNone]
        ELSE IF r.value.kind = "object" /\ "predicted_stars" \in r.value.keys
        THEN [raised |-> FALSE, value |-> r.value]
        ELSE [raised |-> FALSE, value |-> DefaultResult]

\* user_dashboard_predict(review_text). predict_rating calls call_llm_api
\* once, and call_llm_api posts one request.
UserDashboardPredict ==
    /\ user_pc = "ready"
    /\ IF Rejects(review_text)
       THEN /\ user_out' = WarningTuple
            /\ llm_calls' = llm_calls
            /\ user_pc' = "returned"
       ELSE /\ llm_calls' = llm_calls + 1
            /\ \E resp \in LlmResponses :
                  LET p == PredictOutcome(resp)
                  IN  IF p.raised
                      THEN user_out' = user_out /\ user_pc' = "raised"
                      ELSE /\ user_out' = RatingTuple(p.value.num)
                           /\ user_pc' = "returned"
    /\ UNCHANGED review_text

UserInit ==
    /\ user_pc = "ready" /\ review_text \in ReviewTexts
    /\ user_out = NoOutput /\ llm_calls = 0
    /\ IdleBut("user")

UserNext == UserDashboardPredict /\ UNCHANGED allButUser

SpecUser == UserInit /\ [][UserNext]_vars

(***************************************************************************)
(* Properties of the user dashboard.                                       *)
(***************************************************************************)
\* The text holds two characters that are no whitespace and lie at least
\* MinReviewChars - 1 places apart: stripped, it has MinReviewChars
\* characters or more.
LongEnough(s) ==
    \E i, j \in 1..Len(s) : s[i] # " " /\ s[j] # " " /\ j - i >= 10 - 1

\* C16: for a review text that is empty or has fewer than 10 characters
\* once stripped, user_dashboard_predict returns the warning tuple and
\* makes no LLM API call; for every other text it makes exactly one call.
C16_RejectsShortReviews ==
    user_pc # "ready" =>
        IF LongEnough(review_text)
        THEN llm_calls = 1 /\ user_out # WarningTuple
        ELSE /\ user_pc = "returned" /\ llm_calls = 0
             /\ user_out.explanation =
                    "Please enter a valid review (at least 10 characters)"
             /\ user_out.rating = "warning"
             /\ user_out.confidence = "" /\ user_out.time = ""

\* A text of 10 characters or more that is rejected: it is shorter than 10
\* once the blanks around it are stripped.
C16_Witness ==
    /\ user_pc = "returned" /\ Len(review_text) >= 10
    /\ review_text[1] = " " /\ review_text[2] = "a"
    /\ user_out = WarningTuple /\ llm_calls = 0

(***************************************************************************)
(* The admin dashboard: process_batch and download_results.                *)
(*                                                                         *)
(* An uploaded file is what pd.read_csv makes of it: unreadable, or a      *)
(* table with or without a 'text' column and with or without a 'stars'     *)
(* column. Rows are numbered from 1. A handler runs from call to return in *)
(* one action; csv, predict_calls and batch_out describe the last call     *)
(* when it was a process_batch, download_out when it was a                 *)
(* download_results.                                                       *)
(***************************************************************************)
CsvSizes == (0..MaxSmallCsv) \cup ((RowLimit - 1)..(RowLimit + MaxOverLimit))

Csvs ==
    {Unreadable} \cup
    {[readable |-> TRUE, text |-> t, stars |-> st, rows |-> n] :
        t \in BOOLEAN, st \in {"absent", "filled"}, n \in CsvSizes}

\* df.head(100): the number of rows of df_sample.
HeadRows(n) == Min(n, RowLimit)

\* A check that lets every table pass.
AnyColumns(c) == TRUE

\* 'text' in df.columns
HasTextColumn(c) == c.text

\* row.get('stars', None): None is 0 here.
ActualStars(c, i) == IF c.stars = "filled" THEN DatasetStars(i) ELSE 0

\* results_df['actual_stars'].notna().any()
AnyActual(results) == \E i \in 1..Len(results) : results[i].actual_stars # 0

\* An entry of results.
ResultEntry(c, i, p) ==
    [row |-> i, actual_stars |-> ActualStars(c, i), predicted_stars |-> p]

\* batch_results_storage, were it assigned at the end of process_batch.
StoreAtEnd(old, results) == IF results = <<>> THEN old ELSE results

\* batch_results_storage = results, right after the loop.
StoreAfterLoop(old, results) == results

\* ("❌ Error: CSV must have a 'text' column with reviews", None, None, "")
NoTextColumnOut ==
    [message |-> "Error: CSV must have a 'text' column with reviews",
     processed |-> 0, compared |-> "none",
     fig1 |-> "None", fig2 |-> "None", file |-> ""]

\* (f"❌ Error processing file: {str(e)}", None, None, "")
ProcessingErrorOut ==
    [message |-> "Error processing file", processed |-> 0, compared |-> "none",
     fig1 |-> "None", fig2 |-> "None", file |-> ""]

\* (metrics_text, fig1, fig2, csv_filename) for a non-empty results list.
ProcessedOut(results) ==
    [message |-> "Processed", processed |-> Len(results),
     compared |-> IF AnyActual(results) THEN "accuracy_mae" ELSE "no_actual_ratings",
     fig1 |-> "distribution",
     fig2 |-> IF AnyActual(results) THEN "confusion_matrix" ELSE "annotation",
     file |-> "predictions.csv"]

\* The rows at which predict_rating may raise, besides none (0): the first
\* rows and the last row of df_sample.
FailPoints(m) == {0} \cup {k \in 1..m : k <= MaxSmallCsv \/ k = m}

\* What the model answers to the rows of one batch: a JSON object with the
\* three fields, or prose (a failed request ends in the same default).
RowResponses == {<<"LB", "PEC5", "RB">>, <<"X">>}

\* process_batch(file). The model answers row fail_at with the JSON number
\* 5, on which predict_rating raises, and every other row with a response
\* on which predict_rating returns good.
ProcessBatch ==
    /\ last_handler # "idle"
    /\ \E c \in Csvs, resp \in RowResponses :
       \E fail_at \in FailPoints(HeadRows(c.rows)),
          good \in {PredictOutcome(resp)}, bad \in {PredictOutcome(<<"N5">>)} :
          LET m == HeadRows(c.rows)
              answer(i) == IF i = fail_at THEN bad ELSE good
              raising == {i \in 1..m : answer(i).raised}
              last == IF raising = {} THEN m
                      ELSE CHOOSE i \in raising : \A j \in raising : i <= j
              results == [i \in 1..m |-> ResultEntry(c, i, answer(i).value.num)]
          IN  /\ csv' = c
              /\ IF ~c.readable
                 THEN /\ batch_out' = ProcessingErrorOut
                      /\ predict_calls' = <<>>
                      /\ UNCHANGED <<batch_results_storage, ever_completed, completed>>
                 ELSE IF ~HasTextColumn(c)
                 THEN /\ batch_out' = NoTextColumnOut
                      /\ predict_calls' = <<>>
                      /\ UNCHANGED <<batch_results_storage, ever_completed, completed>>
                 ELSE IF raising # {}
                 THEN /\ batch_out' = ProcessingErrorOut
                      /\ predict_calls' = [i \in 1..last |-> i]
                      /\ UNCHANGED <<batch_results_storage, ever_completed, completed>>
                 ELSE /\ predict_calls' = [i \in 1..m |-> i]
                      /\ batch_results_storage' =
                             StoreAfterLoop(batch_results_storage, results)
                      /\ ever_completed' = TRUE
                      /\ completed' = results
                      \* results_df['actual_stars'] raises KeyError on the
                      \* DataFrame of an empty list
                      /\ batch_out' = IF results = <<>> THEN ProcessingErrorOut
                                      ELSE ProcessedOut(results)
    /\ last_handler' = "process_batch"
    /\ download_out' = NoDownload

\* download_results()
DownloadResults ==
    /\ last_handler # "idle"
    /\ download_out' = IF batch_results_storage = <<>>
                       THEN [file |-> "None", rows |-> <<>>]
                       ELSE [file |-> "batch_predictions.csv",
                             rows |-> batch_results_storage]
    /\ last_handler' = "download_results"
    /\ csv' = Unreadable /\ predict_calls' = <<>> /\ batch_out' = NoBatchOut
    /\ UNCHANGED <<batch_results_storage, ever_completed, completed>>

AdminInit ==
    /\ last_handler = "none" /\ batch_results_storage = <<>>
    /\ csv = Unreadable /\ predict_calls = <<>> /\ batch_out = NoBatchOut
    /\ download_out = NoDownload /\ ever_completed = FALSE /\ completed = <<>>
    /\ IdleBut("admin")

AdminNext ==
    \/ ProcessBatch /\ UNCHANGED allButAdmin
    \/ DownloadResults /\ UNCHANGED allButAdmin

SpecAdmin == AdminInit /\ [][AdminNext]_vars

(***************************************************************************)
(* Properties of the admin dashboard.                                      *)
(***************************************************************************)
\* C17: process_batch on a CSV without a 'text' column returns the
\* "CSV must have a 'text' column" error with no plots and no file, calls
\* predict_rating (and so the LLM API) for no row, and leaves
\* batch_results_storage as it was.
C17_NoTextColumnRejected ==
    [][(last_handler' = "process_batch" /\ csv'.readable /\ ~csv'.text) =>
          /\ batch_out'.message = "Error: CSV must have a 'text' column with reviews"
          /\ batch_out'.fig1 = "None" /\ batch_out'.fig2 = "None"
          /\ batch_out'.file = ""
          /\ predict_calls' = <<>>
          /\ batch_results_storage' = batch_results_storage]_vars

\* A CSV with rows but no 'text' column was rejected while results of an
\* earlier batch were stored.
C17_Witness ==
    /\ last_handler = "process_batch" /\ csv.readable /\ ~csv.text
    /\ csv.rows > 0 /\ batch_results_storage # <<>>
    /\ batch_out = NoTextColumnOut

\* C18: on a CSV with a 'text' column and no 'stars' column process_batch
\* succeeds: the metrics text reports the number of processed reviews with
\* "No actual ratings to compare", and no accuracy, MAE or confusion matrix
\* is computed.
C18_StarsColumnOptional ==
    (last_handler = "process_batch" /\ csv.readable /\ csv.text
     /\ csv.stars = "absent") =>
        /\ batch_out.message = "Processed"
        /\ batch_out.processed = (IF csv.rows <= 100 THEN csv.rows ELSE 100)
        /\ batch_out.compared = "no_actual_ratings"
        /\ batch_out.fig2 # "confusion_matrix"

\* C19: download_results returns None if no batch has ever finished its
\* prediction loop, and otherwise exports exactly the result list of the
\* last batch that finished its prediction loop.
C19_ExportsLastCompleted ==
    last_handler = "download_results" =>
        IF ~ever_completed
        THEN download_out.file = "None"
        ELSE download_out.file # "None" /\ download_out.rows = completed

\* C19, amended: download_results returns None if no batch has finished its
\* prediction loop or the last one to finish it had no rows, and otherwise
\* exports exactly the result list of the last batch that finished its
\* prediction loop.
C19_ExportsLastNonEmpty ==
    last_handler = "download_results" =>
        IF ~ever_completed \/ completed = <<>>
        THEN download_out.file = "None"
        ELSE download_out.file # "None" /\ download_out.rows = completed

\* The results of a batch of 100 rows were exported.
C19_Witness ==
    /\ last_handler = "download_results" /\ ever_completed
    /\ download_out.file # "None" /\ Len(download_out.rows) = 100
    /\ download_out.rows = completed

\* C20: on a CSV with n rows process_batch calls predict_rating exactly
\* min(n, 100) times, on the first rows in row order, and the stored result
\* list has min(n, 100) entries.
C20_FirstHundredRows ==
    (last_handler = "process_batch" /\ csv.readable /\ csv.text) =>
        LET m == IF csv.rows <= 100 THEN csv.rows ELSE 100
        IN  /\ predict_calls = [i \in 1..m |-> i]
            /\ Len(batch_results_storage) = m

====
